---- MODULE Spec2Model ----
(***************************************************************************)
(* Model of src/function/arithmetic/nthRoot.js: the typed dispatcher       *)
(* `nthRoot`, the native scalar root `_nthRoot` and the arbitrary          *)
(* precision scalar root `_bigNthRoot`.                                    *)
(*                                                                         *)
(* One behaviour is one call: Init draws the argument list, one action per *)
(* signature of the typed table computes the outcome of the whole call.    *)
(*                                                                         *)
(* Numbers are exact values: finite rationals with a sign (so that -0      *)
(* exists), the infinities, NaN, and surds for roots that are not          *)
(* rational.  Rounding of doubles and of decimals is not modelled.         *)
(***************************************************************************)
EXTENDS Integers, Sequences, FiniteSets

VARIABLES args, pc, outcome

vars == <<args, pc, outcome>>

(***************************************************************************)
(* Bounds of the model.                                                    *)
(***************************************************************************)
\* finite scalar inputs are the integers -MaxMag..MaxMag (and -0, 1/2, -1/2)
MaxMag == 9
\* every matrix and nested sequence is a row of MaxCols cells
MaxCols == 2
\* BigNumber.precision, the configured number of significant digits
precision == 20

\* src line 176: BigNumber.clone({ precision: precision + 2 })
PrecisionBoost == 2

(***************************************************************************)
(* Numeric values.                                                         *)
(***************************************************************************)
Fin(s, n, d) == [k |-> "fin", s |-> s, n |-> n, d |-> d]
Inf(s) == [k |-> "inf", s |-> s, n |-> 0, d |-> 0]
NaN == [k |-> "nan", s |-> 1, n |-> 0, d |-> 0]
Surd(s, n, d, idx, inv) ==
  [k |-> "surd", s |-> s, n |-> n, d |-> d, idx |-> idx, inv |-> inv]

Zero == Fin(1, 0, 1)
NegZero == Fin(-1, 0, 1)
One == Fin(1, 1, 1)
Two == Fin(1, 2, 1)
Infinity == Inf(1)
Int2Val(i) == IF i < 0 THEN Fin(-1, -i, 1) ELSE Fin(1, i, 1)

\* a < 0
Lt0(a) ==
  CASE a.k = "fin" -> a.s = -1 /\ a.n > 0
    [] a.k = "inf" -> a.s = -1
    [] a.k = "surd" -> a.s = -1
    [] OTHER -> FALSE

\* a === 0, BigNumber.isZero(): true of 0 and of -0
EqZero(a) == a.k = "fin" /\ a.n = 0

\* BigNumber.isNegative(): the sign bit, set for -0 and -Infinity, not for NaN
isNegative(a) == a.k # "nan" /\ a.s = -1

\* isFinite(a), BigNumber.isFinite(): false of the infinities and of NaN
isFinite(a) == a.k \in {"fin", "surd"}

\* -a, BigNumber.neg()
Neg(a) == IF a.k = "nan" THEN a ELSE [a EXCEPT !.s = -(a.s)]

\* Math.abs(a), BigNumber.abs()
Abs(a) == IF a.k = "nan" THEN a ELSE [a EXCEPT !.s = 1]

\* a % m for a finite integer m, BigNumber.mod(m): the sign of the dividend;
\* NaN for an infinite or NaN dividend
Mod(a, m) ==
  CASE a.k = "fin" -> Fin(a.s, a.n % (m * a.d), a.d)
    [] OTHER -> NaN

\* x === y on numbers, BigNumber.equals: NaN equals nothing, -0 equals 0
NumEquals(x, y) ==
  /\ x.k # "nan"
  /\ y.k # "nan"
  /\ \/ EqZero(x) /\ EqZero(y)
     \/ x = y

\* 1 / x, one.div(x)
Recip(x) ==
  CASE x.k = "fin" /\ x.n = 0 -> Inf(x.s)
    [] x.k = "fin" /\ x.n > 0 -> Fin(x.s, x.d, x.n)
    [] x.k = "inf" -> Fin(x.s, 0, 1)
    [] x.k = "surd" -> [x EXCEPT !.inv = ~(x.inv)]
    [] OTHER -> NaN

RECURSIVE IntPow(_, _)
IntPow(b, e) == IF e = 0 THEN 1 ELSE b * IntPow(b, e - 1)

\* the integer r >= 0 with r^n = m, or -1 when m is no perfect n-th power
IRoot(m, n) ==
  IF \E r \in 0..m : IntPow(r, n) = m
  THEN CHOOSE r \in 0..m : IntPow(r, n) = m
  ELSE -1

\* Math.pow(b, e), b.pow(e) for a finite b > 0 and an exponent e >= 0
Pow(b, e) ==
  CASE e.k = "nan" -> NaN
    [] e.k = "inf" -> IF b.n = b.d THEN NaN
                      ELSE IF b.n > b.d THEN Infinity ELSE Zero
    [] e.k = "fin" /\ e.n = 0 -> One
    [] e.k = "fin" /\ e.n > 0 /\ e.d = 1 ->
         Fin(1, IntPow(b.n, e.n), IntPow(b.d, e.n))
    [] OTHER ->
         LET num == IntPow(b.n, e.n)
             den == IntPow(b.d, e.n)
             rn == IRoot(num, e.d)
             rd == IRoot(den, e.d)
         IN IF rn >= 0 /\ rd >= 0 THEN Fin(1, rn, rd)
            ELSE Surd(1, num, den, e.d, FALSE)

(***************************************************************************)
(* Typed values and outcomes.                                              *)
(***************************************************************************)
Number(v) == [t |-> "number", v |-> v]
\* an instance of the configured BigNumber class
BigNumber(v) == [t |-> "BigNumber", prec |-> precision, v |-> v]
\* an instance of the clone Big, whose precision is boosted
Big(v) == [t |-> "BigNumber", prec |-> precision + PrecisionBoost, v |-> v]
Complex == [t |-> "Complex"]
NoVal == [t |-> "none"]

ErrRootZero == "Root must be non-zero"
ErrRootParity == "Root must be odd when a is negative."
complexErr == "Complex number not supported in function nthRoot. Use nthRoots instead."

Return(val, branch, calls) ==
  [ok |-> TRUE, val |-> val, err |-> "", at |-> "", branch |-> branch,
   calls |-> calls]
Throw(err, at, calls) ==
  [ok |-> FALSE, val |-> NoVal, err |-> err, at |-> at, branch |-> "throw",
   calls |-> calls]

(***************************************************************************)
(* The scalar roots.                                                       *)
(***************************************************************************)
\* _nthRoot with the parity test moved before the zero-root test
nthRoot_parityFirst(a, root0) ==
  LET inv == Lt0(root0)
      root == IF inv THEN Neg(root0) ELSE root0
      calls == {"_nthRoot"}
  IN IF Lt0(a) /\ ~NumEquals(Mod(Abs(root), 2), One)
     THEN Throw(ErrRootParity, "_nthRoot", calls)
     ELSE IF EqZero(root) THEN Throw(ErrRootZero, "_nthRoot", calls)
     ELSE IF EqZero(a)
     THEN Return(Number(IF inv THEN Infinity ELSE Zero), "zero", calls)
     ELSE IF ~isFinite(a)
     THEN Return(Number(IF inv THEN Zero ELSE a), "infinity", calls)
     ELSE LET x0 == Pow(Abs(a), Recip(root))
              x == IF Lt0(a) THEN Neg(x0) ELSE x0
          IN Return(Number(IF inv THEN Recip(x) ELSE x), "pow", calls)

\* _nthRoot with the parity test on the root as given, its sign kept
nthRoot_signedParity(a, root0) ==
  LET inv == Lt0(root0)
      root == IF inv THEN Neg(root0) ELSE root0
      calls == {"_nthRoot"}
  IN IF EqZero(root) THEN Throw(ErrRootZero, "_nthRoot", calls)
     ELSE IF Lt0(a) /\ ~NumEquals(Mod(root0, 2), One)
     THEN Throw(ErrRootParity, "_nthRoot", calls)
     ELSE IF EqZero(a)
     THEN Return(Number(IF inv THEN Infinity ELSE Zero), "zero", calls)
     ELSE IF ~isFinite(a)
     THEN Return(Number(IF inv THEN Zero ELSE a), "infinity", calls)
     ELSE LET x0 == Pow(Abs(a), Recip(root))
              x == IF Lt0(a) THEN Neg(x0) ELSE x0
          IN Return(Number(IF inv THEN Recip(x) ELSE x), "pow", calls)

\* _nthRoot with the edge cases zero and infinity ignoring the root's sign
nthRoot_edgeNoInv(a, root0) ==
  LET inv == Lt0(root0)
      root == IF inv THEN Neg(root0) ELSE root0
      calls == {"_nthRoot"}
  IN IF EqZero(root) THEN Throw(ErrRootZero, "_nthRoot", calls)
     ELSE IF Lt0(a) /\ ~NumEquals(Mod(Abs(root), 2), One)
     THEN Throw(ErrRootParity, "_nthRoot", calls)
     ELSE IF EqZero(a) THEN Return(Number(Zero), "zero", calls)
     ELSE IF ~isFinite(a) THEN Return(Number(a), "infinity", calls)
     ELSE LET x0 == Pow(Abs(a), Recip(root))
              x == IF Lt0(a) THEN Neg(x0) ELSE x0
          IN Return(Number(IF inv THEN Recip(x) ELSE x), "pow", calls)

_nthRoot(a, root0) ==
  LET inv == Lt0(root0)
      root == IF inv THEN Neg(root0) ELSE root0
      calls == {"_nthRoot"}
  IN IF EqZero(root) THEN Throw(ErrRootZero, "_nthRoot", calls)
     ELSE IF Lt0(a) /\ ~NumEquals(Mod(Abs(root), 2), One)
     THEN Throw(ErrRootParity, "_nthRoot", calls)
     ELSE IF EqZero(a)
     THEN Return(Number(IF inv THEN Infinity ELSE Zero), "zero", calls)
     ELSE IF ~isFinite(a)
     THEN Return(Number(IF inv THEN Zero ELSE a), "infinity", calls)
     ELSE LET x0 == Pow(Abs(a), Recip(root))
              x == IF Lt0(a) THEN Neg(x0) ELSE x0
          IN Return(Number(IF inv THEN Recip(x) ELSE x), "pow", calls)

_bigNthRoot(a, root0) ==
  LET inv == isNegative(root0)
      root == IF inv THEN Neg(root0) ELSE root0
      calls == {"_bigNthRoot"}
  IN IF EqZero(root) THEN Throw(ErrRootZero, "_bigNthRoot", calls)
     ELSE IF isNegative(a) /\ ~NumEquals(Mod(Abs(root), 2), One)
     THEN Throw(ErrRootParity, "_bigNthRoot", calls)
     ELSE IF EqZero(a)
     THEN Return(IF inv THEN Big(Infinity) ELSE Number(Zero), "zero", calls)
     ELSE IF ~isFinite(a)
     THEN Return(BigNumber(IF inv THEN Zero ELSE a), "infinity", calls)
     ELSE LET x0 == Pow(Abs(a), Recip(root))
              x == IF isNegative(a) THEN Neg(x0) ELSE x0
          IN Return(BigNumber(IF inv THEN Recip(x) ELSE x), "pow", calls)

(***************************************************************************)
(* Matrices: every matrix is one row of MaxCols cells.  A DenseMatrix and  *)
(* a nested sequence hold a scalar in every cell, a SparseMatrix holds a   *)
(* non-zero scalar or nothing (an implicit zero).                          *)
(***************************************************************************)
Coords == 1..MaxCols
Implicit == [t |-> "implicit"]
DenseMatrix(cells) == [t |-> "DenseMatrix", cells |-> cells]
SparseMatrix(cells) == [t |-> "SparseMatrix", cells |-> cells]
Array(cells) == [t |-> "Array", cells |-> cells]

IsScalar(x) == x.t \in {"number", "BigNumber"}
IsMatrix(x) == x.t \in {"DenseMatrix", "SparseMatrix"}

\* SparseMatrix.density() === 1: every coordinate holds a stored value
densityIsOne(m) == \A c \in Coords : m.cells[c] # Implicit

\* matrix(array): the default matrix kind is dense
matrix(x) == DenseMatrix(x.cells)

\* equalScalar(v, 0)
eqZero(x) == IsScalar(x) /\ EqZero(x.v)

\* Matrix.get(c): an implicit zero reads as the number 0
ValueAt(m, c) == IF m.cells[c] = Implicit THEN Number(Zero) ELSE m.cells[c]

\* Matrix.valueOf(): the nested sequence of the values
valueOf(m) == Array([c \in Coords |-> ValueAt(m, c)])

\* an outcome turned into a nested sequence, an error left as it is
valueOfOutcome(o) == IF o.ok THEN [o EXCEPT !.val = valueOf(o.val)] ELSE o

(***************************************************************************)
(* The traversal strategies.  Each visits the coordinates in order, calls  *)
(* the callback where it has to, and throws what the first failing call    *)
(* throws.  outs[c] is the outcome at coordinate c.  The callback every     *)
(* call site hands over is nthRoot itself.                                 *)
(***************************************************************************)
RECURSIVE nthRoot(_)

callback(x, y) == nthRoot(<<x, y>>)

Kept(v) == Return(v, "kept", {})

FirstFail(outs) ==
  CHOOSE c \in Coords : ~outs[c].ok /\ \A b \in 1..(c - 1) : outs[b].ok

CallsUpTo(outs, last) == UNION {outs[c].calls : c \in 1..last}

\* the dense result of a traversal
DenseResult(name, outs) ==
  IF \A c \in Coords : outs[c].ok
  THEN Return(DenseMatrix([c \in Coords |-> outs[c].val]), "matrix",
              {name} \cup CallsUpTo(outs, MaxCols))
  ELSE LET f == FirstFail(outs)
       IN [outs[f] EXCEPT !.calls = {name} \cup CallsUpTo(outs, f)]

\* the sparse result of a traversal: a zero value is not stored
SparseResult(name, outs) ==
  IF \A c \in Coords : outs[c].ok
  THEN Return(SparseMatrix([c \in Coords |->
                IF outs[c].val = Implicit \/ eqZero(outs[c].val)
                THEN Implicit ELSE outs[c].val]),
              "matrix", {name} \cup CallsUpTo(outs, MaxCols))
  ELSE LET f == FirstFail(outs)
       IN [outs[f] EXCEPT !.calls = {name} \cup CallsUpTo(outs, f)]

\* algorithm01(dense, sparse, nthRoot, inverse): dense result; the callback
\* at the stored coordinates of the sparse operand, the dense value elsewhere
algorithm01(a, b, inverse) ==
  DenseResult("algorithm01",
    [c \in Coords |->
       IF b.cells[c] = Implicit THEN Kept(a.cells[c])
       ELSE IF inverse THEN callback(b.cells[c], a.cells[c])
       ELSE callback(a.cells[c], b.cells[c])])

\* algorithm02(dense, sparse, nthRoot, inverse): sparse result; the
\* callback at the stored coordinates of the sparse operand only
algorithm02(a, b, inverse) ==
  SparseResult("algorithm02",
    [c \in Coords |->
       IF b.cells[c] = Implicit THEN Kept(Implicit)
       ELSE IF inverse THEN callback(b.cells[c], a.cells[c])
       ELSE callback(a.cells[c], b.cells[c])])

\* algorithm06(sparse, sparse, nthRoot): sparse result; the callback where
\* both operands store a value
algorithm06(a, b) ==
  SparseResult("algorithm06",
    [c \in Coords |->
       IF a.cells[c] = Implicit \/ b.cells[c] = Implicit THEN Kept(Implicit)
       ELSE callback(a.cells[c], b.cells[c])])

\* algorithm11(sparse, scalar, nthRoot, inverse): sparse result; the
\* callback at the stored coordinates, an implicit zero stays implicit
algorithm11(s, b, inverse) ==
  SparseResult("algorithm11",
    [c \in Coords |->
       IF s.cells[c] = Implicit THEN Kept(Implicit)
       ELSE IF inverse THEN callback(b, s.cells[c])
       ELSE callback(s.cells[c], b)])

\* algorithm13(dense, dense, nthRoot): dense result, cell by cell
algorithm13(a, b) ==
  DenseResult("algorithm13",
    [c \in Coords |-> callback(a.cells[c], b.cells[c])])

\* algorithm14(dense, scalar, nthRoot, inverse): dense result, the scalar
\* broadcast
algorithm14(a, b, inverse) ==
  DenseResult("algorithm14",
    [c \in Coords |->
       IF inverse THEN callback(b, a.cells[c]) ELSE callback(a.cells[c], b)])

(***************************************************************************)
(* The typed function nthRoot: one handler per signature of the table.     *)
(* The callback handed to a traversal strategy is nthRoot itself.          *)
(***************************************************************************)
\* 'number' with another default root
sig_number_root3(x) == _nthRoot(x.v, Int2Val(3))

\* 'number'
sig_number(x) == _nthRoot(x.v, Two)

\* 'number, number'
sig_number_number(x, y) == _nthRoot(x.v, y.v)

\* 'BigNumber'
sig_BigNumber(x) == _bigNthRoot(x.v, Two)

\* 'Complex'
sig_Complex(x) == Throw(complexErr, "nthRoot", {})

\* 'Complex, number' handed to the scalar root
sig_Complex_number_root(x, y) == _nthRoot(Zero, y.v)

\* 'Complex, number'
sig_Complex_number(x, y) == Throw(complexErr, "nthRoot", {})

\* 'BigNumber, BigNumber'
sig_BigNumber_BigNumber(x, y) == _bigNthRoot(x.v, y.v)

\* 'Array | Matrix'
sig_ArrayOrMatrix(x) == nthRoot(<<x, Number(Two)>>)

\* 'SparseMatrix, SparseMatrix'
sig_SparseMatrix_SparseMatrix(x, y) ==
  IF densityIsOne(y) THEN algorithm06(x, y)
  ELSE Throw(ErrRootZero, "nthRoot", {})

\* 'SparseMatrix, DenseMatrix' with the density test of the other handlers
sig_SparseMatrix_DenseMatrix_checked(x, y) ==
  IF densityIsOne(x) THEN algorithm02(y, x, TRUE)
  ELSE Throw(ErrRootZero, "nthRoot", {})

\* 'SparseMatrix, DenseMatrix'
sig_SparseMatrix_DenseMatrix(x, y) == algorithm02(y, x, TRUE)

\* 'DenseMatrix, SparseMatrix'
sig_DenseMatrix_SparseMatrix(x, y) ==
  IF densityIsOne(y) THEN algorithm01(x, y, FALSE)
  ELSE Throw(ErrRootZero, "nthRoot", {})

\* 'DenseMatrix, DenseMatrix'
sig_DenseMatrix_DenseMatrix(x, y) == algorithm13(x, y)

\* 'Array, Array'
sig_Array_Array(x, y) == valueOfOutcome(nthRoot(<<matrix(x), matrix(y)>>))

\* 'Array, Matrix'
sig_Array_Matrix(x, y) == nthRoot(<<matrix(x), y>>)

\* 'Matrix, Array'
sig_Matrix_Array(x, y) == nthRoot(<<x, matrix(y)>>)

\* 'SparseMatrix, number | BigNumber'
sig_SparseMatrix_scalar(x, y) == algorithm11(x, y, FALSE)

\* 'DenseMatrix, number | BigNumber'
sig_DenseMatrix_scalar(x, y) == algorithm14(x, y, FALSE)

\* 'number | BigNumber, SparseMatrix' without the density test
sig_scalar_SparseMatrix_unchecked(x, y) == algorithm11(y, x, TRUE)

\* 'number | BigNumber, SparseMatrix'
sig_scalar_SparseMatrix(x, y) ==
  IF densityIsOne(y) THEN algorithm11(y, x, TRUE)
  ELSE Throw(ErrRootZero, "nthRoot", {})

\* 'number | BigNumber, DenseMatrix' without the inverse flag
sig_scalar_DenseMatrix_notInverse(x, y) == algorithm14(y, x, FALSE)

\* 'number | BigNumber, DenseMatrix'
sig_scalar_DenseMatrix(x, y) == algorithm14(y, x, TRUE)

\* 'Array, number | BigNumber'
sig_Array_scalar(x, y) == valueOfOutcome(nthRoot(<<matrix(x), y>>))

\* 'number | BigNumber, Array'
sig_scalar_Array(x, y) == valueOfOutcome(nthRoot(<<x, matrix(y)>>))

\* no signature of the table takes the arguments: the front end rejects them
typedNoMatch == Throw("TypeError", "typed", {})

\* the signature of the table that takes the argument types
Signature(a) ==
  IF Len(a) = 1
  THEN CASE a[1].t = "number" -> "number"
         [] a[1].t = "BigNumber" -> "BigNumber"
         [] a[1].t = "Complex" -> "Complex"
         [] OTHER -> "Array | Matrix"
  ELSE LET t1 == a[1].t
           t2 == a[2].t
       IN CASE t1 = "number" /\ t2 = "number" -> "number, number"
            [] t1 = "BigNumber" /\ t2 = "BigNumber" -> "BigNumber, BigNumber"
            [] t1 = "Complex" /\ t2 = "number" -> "Complex, number"
            [] t1 = "SparseMatrix" /\ t2 = "SparseMatrix" ->
                 "SparseMatrix, SparseMatrix"
            [] t1 = "SparseMatrix" /\ t2 = "DenseMatrix" ->
                 "SparseMatrix, DenseMatrix"
            [] t1 = "DenseMatrix" /\ t2 = "SparseMatrix" ->
                 "DenseMatrix, SparseMatrix"
            [] t1 = "DenseMatrix" /\ t2 = "DenseMatrix" ->
                 "DenseMatrix, DenseMatrix"
            [] t1 = "Array" /\ t2 = "Array" -> "Array, Array"
            [] t1 = "Array" /\ IsMatrix(a[2]) -> "Array, Matrix"
            [] IsMatrix(a[1]) /\ t2 = "Array" -> "Matrix, Array"
            [] t1 = "SparseMatrix" /\ IsScalar(a[2]) ->
                 "SparseMatrix, number | BigNumber"
            [] t1 = "DenseMatrix" /\ IsScalar(a[2]) ->
                 "DenseMatrix, number | BigNumber"
            [] IsScalar(a[1]) /\ t2 = "SparseMatrix" ->
                 "number | BigNumber, SparseMatrix"
            [] IsScalar(a[1]) /\ t2 = "DenseMatrix" ->
                 "number | BigNumber, DenseMatrix"
            [] t1 = "Array" /\ IsScalar(a[2]) -> "Array, number | BigNumber"
            [] IsScalar(a[1]) /\ t2 = "Array" -> "number | BigNumber, Array"
            [] OTHER -> "none"

nthRoot(a) ==
  LET sig == Signature(a)
  IN CASE sig = "number" -> sig_number(a[1])
       [] sig = "number, number" -> sig_number_number(a[1], a[2])
       [] sig = "BigNumber" -> sig_BigNumber(a[1])
       [] sig = "Complex" -> sig_Complex(a[1])
       [] sig = "Complex, number" -> sig_Complex_number(a[1], a[2])
       [] sig = "BigNumber, BigNumber" -> sig_BigNumber_BigNumber(a[1], a[2])
       [] sig = "Array | Matrix" -> sig_ArrayOrMatrix(a[1])
       [] sig = "SparseMatrix, SparseMatrix" ->
            sig_SparseMatrix_SparseMatrix(a[1], a[2])
       [] sig = "SparseMatrix, DenseMatrix" ->
            sig_SparseMatrix_DenseMatrix(a[1], a[2])
       [] sig = "DenseMatrix, SparseMatrix" ->
            sig_DenseMatrix_SparseMatrix(a[1], a[2])
       [] sig = "DenseMatrix, DenseMatrix" ->
            sig_DenseMatrix_DenseMatrix(a[1], a[2])
       [] sig = "Array, Array" -> sig_Array_Array(a[1], a[2])
       [] sig = "Array, Matrix" -> sig_Array_Matrix(a[1], a[2])
       [] sig = "Matrix, Array" -> sig_Matrix_Array(a[1], a[2])
       [] sig = "SparseMatrix, number | BigNumber" ->
            sig_SparseMatrix_scalar(a[1], a[2])
       [] sig = "DenseMatrix, number | BigNumber" ->
            sig_DenseMatrix_scalar(a[1], a[2])
       [] sig = "number | BigNumber, SparseMatrix" ->
            sig_scalar_SparseMatrix(a[1], a[2])
       [] sig = "number | BigNumber, DenseMatrix" ->
            sig_scalar_DenseMatrix(a[1], a[2])
       [] sig = "Array, number | BigNumber" -> sig_Array_scalar(a[1], a[2])
       [] sig = "number | BigNumber, Array" -> sig_scalar_Array(a[1], a[2])
       [] OTHER -> typedNoMatch

(***************************************************************************)
(* The calls the model makes.  A scalar is a number or a BigNumber over    *)
(* ScalarVals; the cells of a base operand are drawn from BaseVals, those  *)
(* of a root operand from RootVals.  The operands of one call are of one   *)
(* numeric domain: how a number and a BigNumber are brought together is    *)
(* the type-dispatch front end's business, not this file's.                *)
(***************************************************************************)
Half == Fin(1, 1, 2)
ScalarVals ==
  {Int2Val(i) : i \in (-MaxMag)..MaxMag}
    \cup {NegZero, Half, Neg(Half), Infinity, Inf(-1), NaN}
BaseVals == {Int2Val(4), Int2Val(-8), Zero, Infinity}
RootVals == {Int2Val(2), Int2Val(3), Int2Val(-2), Zero}
Domains == {"number", "BigNumber"}

Scalar(dom, v) == IF dom = "number" THEN Number(v) ELSE BigNumber(v)
Scalars(dom, vals) == {Scalar(dom, v) : v \in vals}

DenseMatrices(dom, vals) ==
  {DenseMatrix(f) : f \in [Coords -> Scalars(dom, vals)]}
Arrays(dom, vals) == {Array(f) : f \in [Coords -> Scalars(dom, vals)]}
\* a SparseMatrix stores no zero
SparseMatrices(dom, vals) ==
  {SparseMatrix(f) :
     f \in [Coords -> Scalars(dom, {v \in vals : ~EqZero(v)}) \cup {Implicit}]}
Matrices(dom, vals) ==
  DenseMatrices(dom, vals) \cup Arrays(dom, vals) \cup SparseMatrices(dom, vals)

\* one operand of every type, to go with a Complex operand
Samples ==
  {Number(Two), BigNumber(Two), Complex,
   DenseMatrix([c \in Coords |-> Number(Two)]),
   SparseMatrix([c \in Coords |-> Number(Two)]),
   Array([c \in Coords |-> Number(Two)])}

Inputs ==
  {<<x>> : x \in Scalars("number", ScalarVals) \cup Scalars("BigNumber", ScalarVals)}
    \cup {<<x>> : x \in Matrices("number", BaseVals)}
    \cup {<<Complex>>}
    \cup {<<Complex, y>> : y \in Samples}
    \cup {<<x, Complex>> : x \in Samples}
    \cup UNION {
           (Scalars(dom, ScalarVals) \X Scalars(dom, ScalarVals))
             \cup (Matrices(dom, BaseVals) \X Matrices(dom, RootVals))
             \cup (Matrices(dom, BaseVals) \X Scalars(dom, ScalarVals))
             \cup (Scalars(dom, ScalarVals) \X Matrices(dom, RootVals))
           : dom \in Domains}

Pending ==
  [ok |-> FALSE, val |-> NoVal, err |-> "", at |-> "", branch |-> "pending",
   calls |-> {}]

Init ==
  /\ args \in Inputs
  /\ pc = "start"
  /\ outcome = Pending

\* the call returns or throws
Finish(o) ==
  /\ outcome' = o
  /\ pc' = "done"
  /\ UNCHANGED args

Call_number ==
  /\ pc = "start"
  /\ Signature(args) = "number"
  /\ Finish(sig_number(args[1]))

Call_number_number ==
  /\ pc = "start"
  /\ Signature(args) = "number, number"
  /\ Finish(sig_number_number(args[1], args[2]))

Call_BigNumber ==
  /\ pc = "start"
  /\ Signature(args) = "BigNumber"
  /\ Finish(sig_BigNumber(args[1]))

Call_Complex ==
  /\ pc = "start"
  /\ Signature(args) = "Complex"
  /\ Finish(sig_Complex(args[1]))

Call_Complex_number ==
  /\ pc = "start"
  /\ Signature(args) = "Complex, number"
  /\ Finish(sig_Complex_number(args[1], args[2]))

Call_BigNumber_BigNumber ==
  /\ pc = "start"
  /\ Signature(args) = "BigNumber, BigNumber"
  /\ Finish(sig_BigNumber_BigNumber(args[1], args[2]))

Call_ArrayOrMatrix ==
  /\ pc = "start"
  /\ Signature(args) = "Array | Matrix"
  /\ Finish(sig_ArrayOrMatrix(args[1]))

Call_SparseMatrix_SparseMatrix ==
  /\ pc = "start"
  /\ Signature(args) = "SparseMatrix, SparseMatrix"
  /\ Finish(sig_SparseMatrix_SparseMatrix(args[1], args[2]))

Call_SparseMatrix_DenseMatrix ==
  /\ pc = "start"
  /\ Signature(args) = "SparseMatrix, DenseMatrix"
  /\ Finish(sig_SparseMatrix_DenseMatrix(args[1], args[2]))

Call_DenseMatrix_SparseMatrix ==
  /\ pc = "start"
  /\ Signature(args) = "DenseMatrix, SparseMatrix"
  /\ Finish(sig_DenseMatrix_SparseMatrix(args[1], args[2]))

Call_DenseMatrix_DenseMatrix ==
  /\ pc = "start"
  /\ Signature(args) = "DenseMatrix, DenseMatrix"
  /\ Finish(sig_DenseMatrix_DenseMatrix(args[1], args[2]))

Call_Array_Array ==
  /\ pc = "start"
  /\ Signature(args) = "Array, Array"
  /\ Finish(sig_Array_Array(args[1], args[2]))

Call_Array_Matrix ==
  /\ pc = "start"
  /\ Signature(args) = "Array, Matrix"
  /\ Finish(sig_Array_Matrix(args[1], args[2]))

Call_Matrix_Array ==
  /\ pc = "start"
  /\ Signature(args) = "Matrix, Array"
  /\ Finish(sig_Matrix_Array(args[1], args[2]))

Call_SparseMatrix_scalar ==
  /\ pc = "start"
  /\ Signature(args) = "SparseMatrix, number | BigNumber"
  /\ Finish(sig_SparseMatrix_scalar(args[1], args[2]))

Call_DenseMatrix_scalar ==
  /\ pc = "start"
  /\ Signature(args) = "DenseMatrix, number | BigNumber"
  /\ Finish(sig_DenseMatrix_scalar(args[1], args[2]))

Call_scalar_SparseMatrix ==
  /\ pc = "start"
  /\ Signature(args) = "number | BigNumber, SparseMatrix"
  /\ Finish(sig_scalar_SparseMatrix(args[1], args[2]))

Call_scalar_DenseMatrix ==
  /\ pc = "start"
  /\ Signature(args) = "number | BigNumber, DenseMatrix"
  /\ Finish(sig_scalar_DenseMatrix(args[1], args[2]))

Call_Array_scalar ==
  /\ pc = "start"
  /\ Signature(args) = "Array, number | BigNumber"
  /\ Finish(sig_Array_scalar(args[1], args[2]))

Call_scalar_Array ==
  /\ pc = "start"
  /\ Signature(args) = "number | BigNumber, Array"
  /\ Finish(sig_scalar_Array(args[1], args[2]))

Call_none ==
  /\ pc = "start"
  /\ Signature(args) = "none"
  /\ Finish(typedNoMatch)

Next ==
  \/ Call_number
  \/ Call_number_number
  \/ Call_BigNumber
  \/ Call_Complex
  \/ Call_Complex_number
  \/ Call_BigNumber_BigNumber
  \/ Call_ArrayOrMatrix
  \/ Call_SparseMatrix_SparseMatrix
  \/ Call_SparseMatrix_DenseMatrix
  \/ Call_DenseMatrix_SparseMatrix
  \/ Call_DenseMatrix_DenseMatrix
  \/ Call_Array_Array
  \/ Call_Array_Matrix
  \/ Call_Matrix_Array
  \/ Call_SparseMatrix_scalar
  \/ Call_DenseMatrix_scalar
  \/ Call_scalar_SparseMatrix
  \/ Call_scalar_DenseMatrix
  \/ Call_Array_scalar
  \/ Call_scalar_Array
  \/ Call_none

Spec == Init /\ [][Next]_vars

(***************************************************************************)
(* The properties.                                                         *)
(***************************************************************************)
Done == pc = "done"
ScalarCall == Len(args) = 2 /\ IsScalar(args[1]) /\ IsScalar(args[2])
NativeCall == ScalarCall /\ args[1].t = "number" /\ args[2].t = "number"
BigCall == ScalarCall /\ args[1].t = "BigNumber" /\ args[2].t = "BigNumber"

\* r > 0
Gt0(r) == r.k \in {"fin", "inf"} /\ r.s = 1 /\ ~EqZero(r)
\* r is an odd integer
IsOddInt(r) == r.k = "fin" /\ r.d = 1 /\ r.n % 2 = 1

\* C1: a scalar root with root 0 fails with 'Root must be non-zero', thrown
\* by the scalar root itself, whatever the base: no value is returned and no
\* other error is raised first.
C1_ZeroRootFails ==
  (Done /\ ScalarCall /\ EqZero(args[2].v)) =>
    /\ ~outcome.ok
    /\ outcome.val = NoVal
    /\ outcome.err = ErrRootZero
    /\ outcome.at = (IF NativeCall THEN "_nthRoot" ELSE "_bigNthRoot")

\* a negative base, which would fail the parity test, with root 0
C1_Witness ==
  /\ Done
  /\ args = <<Number(Int2Val(-4)), Number(Zero)>>
  /\ outcome.err = ErrRootZero

\* C2: for a non-zero root, the native scalar root fails with 'Root must be
\* odd when a is negative.' exactly when the base is negative and |root| is
\* not an odd integer.
C2_ParityExactly ==
  (Done /\ NativeCall /\ ~EqZero(args[2].v)) =>
    ((~outcome.ok /\ outcome.err = ErrRootParity)
       <=> (Lt0(args[1].v) /\ ~IsOddInt(Abs(args[2].v))))

\* a negative base with a negative odd root returns a value
C2_Witness ==
  /\ Done
  /\ args = <<Number(Int2Val(-8)), Number(Int2Val(-3))>>
  /\ outcome.ok
  /\ outcome.val = Number(Fin(-1, 1, 2))

\* C3: for a non-zero root, the native root of 0 is 0 for a positive root
\* and +Infinity for a negative one, the native root of +Infinity is
\* +Infinity for a positive root and 0 for a negative one; neither throws
\* nor reaches the pow computation.
C3_ZeroAndInfinity ==
  (/\ Done
   /\ NativeCall
   /\ ~EqZero(args[2].v)
   /\ (EqZero(args[1].v) \/ args[1].v = Infinity))
    => /\ outcome.ok
       /\ outcome.branch # "pow"
       /\ (Gt0(args[2].v) =>
            outcome.val = Number(IF EqZero(args[1].v) THEN Zero ELSE Infinity))
       /\ (Lt0(args[2].v) =>
            outcome.val = Number(IF EqZero(args[1].v) THEN Infinity ELSE Zero))

\* the root of 0 with a negative root
C3_Witness ==
  /\ Done
  /\ args = <<Number(Zero), Number(Int2Val(-2))>>
  /\ outcome.val = Number(Infinity)

\* the base and the root at a coordinate: an operand that is a scalar is
\* broadcast
BaseAt(c) == IF IsScalar(args[1]) THEN args[1] ELSE ValueAt(args[1], c)
RootAt(c) == IF IsScalar(args[2]) THEN args[2] ELSE ValueAt(args[2], c)
ScalarNthRootAt(c) == nthRoot(<<BaseAt(c), RootAt(c)>>)
\* the same value; a zero that a sparse result leaves implicit is a zero
SameValue(u, w) == u = w \/ (eqZero(u) /\ eqZero(w))
FullyDense(m) == m.t = "SparseMatrix" => densityIsOne(m)
MatrixCall ==
  /\ Len(args) = 2
  /\ args[1].t # "Complex"
  /\ args[2].t # "Complex"
  /\ ~ScalarCall

\* C4: on every path with a matrix operand (a sparse operand fully dense),
\* the value at each coordinate is the scalar root of the first argument's
\* value there by the second argument's value there, and the call throws
\* what the first failing coordinate throws.
C4_ElementWise ==
  (Done /\ MatrixCall /\ FullyDense(args[1]) /\ FullyDense(args[2])) =>
    IF \A c \in Coords : ScalarNthRootAt(c).ok
    THEN /\ outcome.ok
         /\ \A c \in Coords :
              SameValue(ValueAt(outcome.val, c), ScalarNthRootAt(c).val)
    ELSE LET f == CHOOSE c \in Coords :
                    /\ ~ScalarNthRootAt(c).ok
                    /\ \A b \in 1..(c - 1) : ScalarNthRootAt(b).ok
         IN /\ ~outcome.ok
            /\ outcome.err = ScalarNthRootAt(f).err
            /\ outcome.at = ScalarNthRootAt(f).at

\* a scalar base broadcast over a dense matrix of roots, the operands
\* swapped on their way to the strategy: 4 by the root -2 is 1/2
C4_Witness ==
  /\ Done
  /\ Signature(args) = "number | BigNumber, DenseMatrix"
  /\ args[1] = Number(Int2Val(4))
  /\ args[2].cells[1] = Number(Int2Val(-2))
  /\ outcome.ok
  /\ outcome.val.cells[1] = Number(Half)
  /\ "algorithm14" \in outcome.calls

\* C5: a SparseMatrix root with density() < 1 makes the call fail with
\* 'Root must be non-zero', thrown by the dispatcher before any strategy or
\* scalar root is called, for a DenseMatrix, a SparseMatrix, a number and a
\* BigNumber as first operand.
C5_SparseRootNeedsDensityOne ==
  (/\ Done
   /\ Len(args) = 2
   /\ args[1].t \in {"DenseMatrix", "SparseMatrix", "number", "BigNumber"}
   /\ args[2].t = "SparseMatrix"
   /\ ~densityIsOne(args[2]))
    => outcome = Throw(ErrRootZero, "nthRoot", {})

\* a BigNumber base with a sparse root that has an implicit zero
C5_Witness ==
  /\ Done
  /\ args[1] = BigNumber(Int2Val(4))
  /\ Len(args) = 2
  /\ args[2].t = "SparseMatrix"
  /\ args[2].cells[1] = Implicit
  /\ outcome = Throw(ErrRootZero, "nthRoot", {})

\* C6 as stated: a SparseMatrix with density() < 1 combined with a
\* DenseMatrix, in either argument order, fails with 'Root must be
\* non-zero'.
C6_Original ==
  (/\ Done
   /\ Len(args) = 2
   /\ \/ (args[1].t = "SparseMatrix" /\ ~densityIsOne(args[1])
            /\ args[2].t = "DenseMatrix")
      \/ (args[1].t = "DenseMatrix"
            /\ args[2].t = "SparseMatrix" /\ ~densityIsOne(args[2])))
    => (~outcome.ok /\ outcome.err = ErrRootZero /\ outcome.at = "nthRoot")

\* C6 amended: a DenseMatrix base with a SparseMatrix root of density() < 1
\* fails with 'Root must be non-zero' thrown by the dispatcher; with the
\* SparseMatrix as base and the DenseMatrix as root the dispatcher tests no
\* density: it calls algorithm02 whatever the density, and throws nothing
\* itself.
C6_DensityTestOnRootSideOnly ==
  /\ (Done /\ Signature(args) = "DenseMatrix, SparseMatrix"
         /\ ~densityIsOne(args[2]))
       => outcome = Throw(ErrRootZero, "nthRoot", {})
  /\ (Done /\ Signature(args) = "SparseMatrix, DenseMatrix")
       => ("algorithm02" \in outcome.calls /\ outcome.at # "nthRoot")

\* a sparse base with an implicit zero and a dense root: a result
C6_Witness ==
  /\ Done
  /\ Signature(args) = "SparseMatrix, DenseMatrix"
  /\ ~densityIsOne(args[1])
  /\ outcome.ok
  /\ "algorithm02" \in outcome.calls

\* C7 as stated: a SparseMatrix base with implicit zeros and a negative
\* scalar root fails with 'Root must be non-zero' instead of returning a
\* sparse result.
C7_NegativeRootOverImplicitZeros ==
  (/\ Done
   /\ Len(args) = 2
   /\ args[1].t = "SparseMatrix"
   /\ ~densityIsOne(args[1])
   /\ IsScalar(args[2])
   /\ Lt0(args[2].v))
    => (~outcome.ok /\ outcome.err = ErrRootZero)

\* the argument in its own numeric domain
TwoLike(x) == IF x.t = "BigNumber" THEN BigNumber(Two) ELSE Number(Two)

\* C8: the call with one argument has the outcome of the call with that
\* argument and the root 2 of its numeric domain: the same value of the
\* same container kind, or the same error; for a nested sequence or a
\* matrix it goes through the matrix-by-scalar strategy.
C8_DefaultRootIsTwo ==
  (Done /\ Len(args) = 1 /\ args[1].t # "Complex")
    => /\ outcome = nthRoot(<<args[1], TwoLike(args[1])>>)
       /\ (outcome.ok /\ ~IsScalar(args[1]) => outcome.val.t = args[1].t)
       /\ (args[1].t \in {"Array", "DenseMatrix"}
             => "algorithm14" \in outcome.calls)
       /\ (args[1].t = "SparseMatrix" => "algorithm11" \in outcome.calls)

\* the square root of 9, the root left out
C8_Witness ==
  /\ Done
  /\ args = <<Number(Int2Val(9))>>
  /\ outcome.ok
  /\ outcome.val = Number(Int2Val(3))

\* C9 as stated: every call with a Complex operand, in either position,
\* fails with the error that names nthRoots.
C9_Original ==
  (Done /\ (\E i \in 1..Len(args) : args[i].t = "Complex")) =>
    outcome = Throw(complexErr, "nthRoot", {})

\* C9 amended: a call whose first operand is Complex and whose second is left
\* out or is a number fails with the error that names nthRoots, thrown
\* by the dispatcher before any strategy or scalar root is called.
C9_ComplexFirstOperand ==
  (Done /\ args[1].t = "Complex"
     /\ (Len(args) = 1 \/ args[2].t = "number")) =>
    outcome = Throw(complexErr, "nthRoot", {})

\* a Complex base with a number root
C9_Witness ==
  /\ Done
  /\ args = <<Complex, Number(Two)>>
  /\ outcome = Throw(complexErr, "nthRoot", {})

\* C10 as stated: the BigNumber root takes the branch the native root takes
\* on the same base and root, returns the same value, and returns it as a
\* BigNumber of the configured precision.
C10_BigFollowsNative ==
  (Done /\ BigCall) =>
    LET native == _nthRoot(args[1].v, args[2].v)
    IN /\ outcome.ok = native.ok
       /\ outcome.err = native.err
       /\ outcome.branch = native.branch
       /\ (outcome.ok => outcome.val = BigNumber(native.val.v))

====
